---- MODULE Spec2Model ----
(***************************************************************************)
(* Model of the colf command (cmd/colf/main.go): flag parsing, language    *)
(* selection, schema file collection and de-duplication, then the          *)
(* parse -> format -> configure -> generate pipeline and the exit status.  *)
(* Text is a sequence of one-character strings; a path is a sequence of    *)
(* slash-separated segments.                                               *)
(***************************************************************************)
EXTENDS Integers, Sequences, FiniteSets, TLC

VARIABLES
    pc,           \* position in main
    exit,         \* process exit status, -1 while running
    outcome,      \* which statement ended the run
    args,         \* flag.Args(): the operands left after the flags
    format,       \* *format
    prefix,       \* *prefix, as path segments
    basedir,      \* *basedir
    sizeMax,      \* *sizeMax
    listMax,      \* *listMax
    superClass,   \* *superClass
    interfaces,   \* *interfaces, as text
    snippetFile,  \* *snippetFile
    gen,          \* the selected generator function, "nil" when unset
    schemaFiles,  \* the schemaFiles slice
    fileSet,      \* the fileSet map (its key set)
    idx,          \* loop index of the loop main is in (1-based)
    packages,     \* the packages returned by ParseFiles
    rewritten,    \* schema files rewritten on disk by Format
    tree,         \* destination tree: "none", "partial" or "full"
    logged,       \* lines written with log.Printf ("formatted" lines)
    trace,        \* history: the calls main made to its collaborators
    input,        \* history: schemaFiles as collected, before de-duplication
    declared,     \* history: the package list as ParseFiles returned it
    wpc,          \* generated code: "value", "encoded" or "decoded"
    value,        \* generated code: the struct value being marshalled
    bytes,        \* generated code: the marshalled bytes
    decoded       \* generated code: the result of unmarshalling bytes

\* the state of the command
cli == <<pc, exit, outcome, args, format, prefix, basedir, sizeMax, listMax,
         superClass, interfaces, snippetFile, gen, schemaFiles, fileSet,
         idx, packages, rewritten, tree, logged, trace, input, declared>>

\* the state of a marshal and unmarshal by generated code
wire == <<wpc, value, bytes, decoded>>

vars == <<cli, wire>>

----------------------------------------------------------------------------
(* Bounds of the model *)

\* most file operands after the language on one command line
MaxOperands == 2

----------------------------------------------------------------------------
(* Text *)

\* unicode.ToLower on the letters the model's selectors use
LowerChar(c) ==
    CASE c = "A" -> "a" [] c = "C" -> "c" [] c = "E" -> "e" [] c = "G" -> "g"
      [] c = "J" -> "j" [] c = "M" -> "m" [] c = "O" -> "o" [] c = "S" -> "s"
      [] c = "V" -> "v"
      [] OTHER -> c

ToLowerIdentity(s) == s

\* strings.ToLower
ToLower(s) == [i \in 1..Len(s) |-> LowerChar(s[i])]

\* strings.Split(s, ","): the pieces between commas, empty pieces kept
RECURSIVE SplitFrom(_, _, _)
SplitFrom(s, i, cur) ==
    IF i > Len(s) THEN <<cur>>
    ELSE IF s[i] = "," THEN <<cur>> \o SplitFrom(s, i + 1, <<>>)
    ELSE SplitFrom(s, i + 1, Append(cur, s[i]))

Split(s) == SplitFrom(s, 1, <<>>)

----------------------------------------------------------------------------
(* Paths *)

\* filepath.Clean / path.Clean on a relative path: "." segments dropped, each
\* ".." cancels the segment before it, leading ".." kept, empty result is "."
RECURSIVE CleanFrom(_, _, _)
CleanFrom(p, i, out) ==
    IF i > Len(p) THEN (IF out = <<>> THEN <<".">> ELSE out)
    ELSE IF p[i] = "." \/ p[i] = "" THEN CleanFrom(p, i + 1, out)
    ELSE IF p[i] = ".." /\ out # <<>> /\ out[Len(out)] # ".."
         THEN CleanFrom(p, i + 1, SubSeq(out, 1, Len(out) - 1))
    ELSE CleanFrom(p, i + 1, Append(out, p[i]))

Clean(p) == CleanFrom(p, 1, <<>>)

\* filepath.Join / path.Join of two elements: empty elements are ignored,
\* the result is cleaned, and all-empty joins to the empty path
Join(a, b) == IF a \o b = <<>> THEN <<>> ELSE Clean(a \o b)

----------------------------------------------------------------------------
(* The file system the command runs in: the working directory holds        *)
(* a.colf, b.colf, the directory d (holding a.colf) and a directory        *)
(* named "[".                                                              *)

FsFiles == {<<"a.colf">>, <<"b.colf">>, <<"d", "a.colf">>}
FsDirs == {<<".">>, <<"d">>, <<"[">>}

\* the *.colf names of a directory, in the sorted order Glob returns them
DirEntries(d) ==
    IF d = <<".">> THEN <<"a.colf", "b.colf">>
    ELSE IF d = <<"d">> THEN <<"a.colf">>
    ELSE <<>>

\* os.Stat: walk the path segment by segment from the working directory
RECURSIVE StatFrom(_, _, _)
StatFrom(p, i, cur) ==
    IF i > Len(p) THEN (IF cur \in FsDirs THEN "dir" ELSE "file")
    ELSE IF cur \notin FsDirs THEN "error"
    ELSE LET nxt == Clean(cur \o <<p[i]>>)
         IN  IF nxt[1] = ".." THEN "error"
             ELSE IF nxt \in FsDirs \cup FsFiles THEN StatFrom(p, i + 1, nxt)
             ELSE "error"

Stat(p) == IF p = <<>> THEN "error" ELSE StatFrom(p, 1, <<".">>)

\* filepath.Glob(filepath.Join(f, "*.colf")) fails with ErrBadPattern when
\* the directory part is itself a malformed pattern
GlobFails(f) == \E i \in 1..Len(f) : f[i] = "["

\* the matches of filepath.Join(f, "*.colf"): the joined pattern is cleaned
GlobDir(f) ==
    LET names == DirEntries(Clean(f))
    IN  [i \in 1..Len(names) |-> Join(f, <<names[i]>>)]

\* filepath.Glob("*.colf") in the working directory
GlobCwd == [i \in 1..Len(DirEntries(<<".">>)) |-> <<DirEntries(<<".">>)[i]>>]

----------------------------------------------------------------------------
(* Command lines *)

SeqsUpTo(S, n) == UNION {[1..k -> S] : k \in 0..n}

\* first operands tried as the language selector
Selectors ==
    { <<"c">>, <<"C">>, <<"g", "o">>, <<"G", "o">>,
      <<"J", "a", "v", "a">>,
      <<"j", "s">>, <<"J", "a", "v", "a", "S", "c", "r", "i", "p", "t">>,
      <<"E", "C", "M", "A", "S", "c", "r", "i", "p", "t">>,
      <<"c", "p", "p">>, <<"G", "o", "l", "a", "n", "g">>, <<>> }

\* file operands tried after the language
PathOperands ==
    { <<"a.colf">>, <<".", "a.colf">>, <<"d", "..", "a.colf">>,
      <<"d">>, <<".">>, <<"nofile">>, <<"[">> }

\* -b, -p, -s and -l: the defaults of the flag declarations, or the values
\* of the examples in the help text
Presets ==
    { [b |-> ".", p |-> <<>>, s |-> "16 * 1024 * 1024", l |-> "64 * 1024"],
      [b |-> "src", p |-> <<"com", "example">>, s |-> "2048", l |-> "96"] }

SuperClassOptions == { "", "com/example/Parent" }
InterfaceOptions == { <<>>, <<"I", ",", "J">> }
SnippetOptions == { "", "snip.java", "missing.java" }

\* ioutil.ReadFile of the snippet file: its text, or "error"
ReadFile(f) == IF f = "snip.java" THEN "CODE" ELSE "error"

----------------------------------------------------------------------------
(* Exit statuses *)

\* os.Exit(2) after flag.Usage, and the flag package's exit on a bad flag
UsageStatus == 2
\* log.Fatal
FatalStatus == 1
\* return from main
SuccessStatus == 0

Event(op, arg, res) == [op |-> op, arg |-> arg, res |-> res]

FatalAsUsage(why) ==
    /\ pc' = "exit"
    /\ exit' = UsageStatus
    /\ outcome' = why

\* log.Fatal: the run ends with status 1
Fatal(why) ==
    /\ pc' = "exit"
    /\ exit' = FatalStatus
    /\ outcome' = why

----------------------------------------------------------------------------
(* main *)

\* the command before flag.Parse: every flag at its default
CliInit ==
    /\ pc = "start"
    /\ exit = -1
    /\ outcome = "running"
    /\ args = <<>>
    /\ format = FALSE
    /\ prefix = <<>>
    /\ basedir = "."
    /\ sizeMax = "16 * 1024 * 1024"
    /\ listMax = "64 * 1024"
    /\ superClass = ""
    /\ interfaces = <<>>
    /\ snippetFile = ""
    /\ gen = "nil"
    /\ schemaFiles = <<>>
    /\ fileSet = {}
    /\ idx = 0
    /\ packages = <<>>
    /\ rewritten = {}
    /\ tree = "none"
    /\ logged = <<>>
    /\ trace = <<>>
    /\ input = <<>>
    /\ declared = <<>>

\* no generated code runs while the command does
WireIdle ==
    /\ wpc = "value"
    /\ value = <<>>
    /\ bytes = <<>>
    /\ decoded = [ok |-> FALSE, val |-> <<>>, pos |-> 0]

Init == CliInit /\ WireIdle

\* flag.Parse stops at an undefined flag: the flag package prints the error
\* and exits 2 (flag.CommandLine is ExitOnError); the operands after the bad
\* flag stay unparsed in flag.Args()
FlagParseBad ==
    /\ pc = "start"
    /\ \E rest \in {<<>>, << <<"g", "o">> >>, << <<"g", "o">>, <<"a.colf">> >>} :
           args' = rest
    /\ pc' = "exit"
    /\ exit' = UsageStatus
    /\ outcome' = "flag"
    /\ UNCHANGED wire
    /\ UNCHANGED <<format, prefix, basedir, sizeMax, listMax, superClass,
                   interfaces, snippetFile, gen, schemaFiles, fileSet, idx,
                   packages, rewritten, tree, logged, trace, input, declared>>

\* flag.Parse on -h or -help: usage is printed and the process exits, with
\* status 2 or 0 depending on the Go release the command is built with
FlagParseHelp ==
    /\ pc = "start"
    /\ pc' = "exit"
    /\ \E st \in {SuccessStatus, UsageStatus} : exit' = st
    /\ outcome' = "help"
    /\ UNCHANGED wire
    /\ UNCHANGED <<args, format, prefix, basedir, sizeMax, listMax, superClass,
                   interfaces, snippetFile, gen, schemaFiles, fileSet, idx,
                   packages, rewritten, tree, logged, trace, input, declared>>

\* flag.Parse succeeds: every flag variable is set and the operands are left
FlagParse ==
    /\ pc = "start"
    /\ \E f \in BOOLEAN, pre \in Presets, x \in SuperClassOptions,
          i \in InterfaceOptions, c \in SnippetOptions :
          /\ format' = f
          /\ basedir' = pre.b
          /\ sizeMax' = pre.s
          /\ listMax' = pre.l
          /\ prefix' = pre.p
          /\ superClass' = x
          /\ interfaces' = i
          /\ snippetFile' = c
    /\ \/ args' = <<>>
       \/ \E lang \in Selectors, ops \in SeqsUpTo(PathOperands, MaxOperands) :
              args' = <<lang>> \o ops
    /\ pc' = "narg"
    /\ UNCHANGED wire
    /\ UNCHANGED <<exit, outcome, gen, schemaFiles, fileSet, idx, packages,
                   rewritten, tree, logged, trace, input, declared>>

\* if flag.NArg() == 0 { flag.Usage(); os.Exit(2) }
CheckNArg ==
    /\ pc = "narg"
    /\ IF Len(args) = 0
       THEN /\ pc' = "exit"
            /\ exit' = UsageStatus
            /\ outcome' = "usage"
       ELSE /\ pc' = "select"
            /\ UNCHANGED <<exit, outcome>>
    /\ UNCHANGED wire
    /\ UNCHANGED <<args, format, prefix, basedir, sizeMax, listMax, superClass,
                   interfaces, snippetFile, gen, schemaFiles, fileSet, idx,
                   packages, rewritten, tree, logged, trace, input, declared>>

\* the switch on strings.ToLower(lang): the generator of a selector, "nil"
\* for the default case
GeneratorFor(lang) ==
    LET l == ToLower(lang)
    IN  IF l = <<"c">> THEN "GenerateC"
        ELSE IF l = <<"g", "o">> THEN "GenerateGo"
        ELSE IF l = <<"j", "a", "v", "a">> THEN "GenerateJava"
        ELSE IF l \in { <<"j", "a", "v", "a", "s", "c", "r", "i", "p", "t">>,
                        <<"j", "s">>,
                        <<"e", "c", "m", "a", "s", "c", "r", "i", "p", "t">> }
             THEN "GenerateECMA"
        ELSE "nil"

DirectivesAcceptedByGoToo(g) == g \in {"GenerateJava", "GenerateGo"}

\* the cases that check -x, -i and -c: every case but "java"
DirectivesAccepted(g) == g = "GenerateJava"

\* one of -x, -i, -c is set
DirectiveGiven == superClass # "" \/ interfaces # <<>> \/ snippetFile # ""

\* select language
SelectLanguage ==
    /\ pc = "select"
    /\ LET g == GeneratorFor(args[1])
       IN  IF g = "nil"
           THEN Fatal("language") /\ UNCHANGED <<gen, idx>>
           ELSE /\ gen' = g
                /\ IF ~DirectivesAccepted(g) /\ DirectiveGiven
                   THEN Fatal("directive") /\ UNCHANGED idx
                   ELSE /\ pc' = "collect"
                        /\ idx' = 2
                        /\ UNCHANGED <<exit, outcome>>
    /\ UNCHANGED wire
    /\ UNCHANGED <<args, format, prefix, basedir, sizeMax, listMax, superClass,
                   interfaces, snippetFile, schemaFiles, fileSet, packages,
                   rewritten, tree, logged, trace, input, declared>>

\* flag.NArg() <= 1: the schema files are the *.colf files of the working
\* directory; Glob cannot fail on this pattern
CollectDefault ==
    /\ pc = "collect"
    /\ Len(args) <= 1
    /\ schemaFiles' = GlobCwd
    /\ input' = GlobCwd
    /\ trace' = Append(trace, Event("Glob", <<".">>, "ok"))
    /\ pc' = "dedup"
    /\ idx' = 1
    /\ UNCHANGED wire
    /\ UNCHANGED <<exit, outcome, args, format, prefix, basedir, sizeMax,
                   listMax, superClass, interfaces, snippetFile, gen, fileSet,
                   packages, rewritten, tree, logged, declared>>

\* one iteration of the loop over flag.Args()[1:]
CollectOperand ==
    /\ pc = "collect"
    /\ Len(args) > 1
    /\ LET f == args[idx]
           kind == Stat(f)
           more == IF kind = "file" THEN <<f>> ELSE GlobDir(f)
       IN  IF kind = "error"
           THEN /\ Fatal("stat")
                /\ trace' = Append(trace, Event("Stat", f, "error"))
                /\ UNCHANGED <<schemaFiles, input, idx>>
           ELSE IF kind = "dir" /\ GlobFails(f)
           THEN /\ Fatal("glob")
                /\ trace' = trace \o <<Event("Stat", f, "dir"),
                                       Event("Glob", f, "error")>>
                /\ UNCHANGED <<schemaFiles, input, idx>>
           ELSE /\ schemaFiles' = schemaFiles \o more
                /\ input' = schemaFiles \o more
                /\ trace' = IF kind = "file"
                            THEN Append(trace, Event("Stat", f, "file"))
                            ELSE trace \o <<Event("Stat", f, "dir"),
                                            Event("Glob", f, "ok")>>
                /\ IF idx = Len(args)
                   THEN pc' = "dedup" /\ idx' = 1
                   ELSE pc' = "collect" /\ idx' = idx + 1
                /\ UNCHANGED <<exit, outcome>>
    /\ UNCHANGED wire
    /\ UNCHANGED <<args, format, prefix, basedir, sizeMax, listMax, superClass,
                   interfaces, snippetFile, gen, fileSet, packages, rewritten,
                   tree, logged, declared>>

NormalizeNothing(f) == f

\* f = filepath.Clean(f)
Normalize(f) == Clean(f)

\* if fileSet[f]
Seen(set, f) == f \in set

\* the index written by schemaFiles[len(fileSet)] = f (1-based)
WriteIndex(set) == Cardinality(set) + 1

\* one iteration of the normalize and deduplicate loop; the range loop reads
\* element idx of the array the loop body writes into
Dedup ==
    /\ pc = "dedup"
    /\ idx <= Len(schemaFiles)
    /\ LET f == Normalize(schemaFiles[idx])
       IN  IF Seen(fileSet, f)
           THEN UNCHANGED <<schemaFiles, fileSet>>
           ELSE /\ schemaFiles' = [schemaFiles EXCEPT ![WriteIndex(fileSet)] = f]
                /\ fileSet' = fileSet \cup {f}
    /\ idx' = idx + 1
    /\ UNCHANGED wire
    /\ UNCHANGED <<pc, exit, outcome, args, format, prefix, basedir, sizeMax,
                   listMax, superClass, interfaces, snippetFile, gen, packages,
                   rewritten, tree, logged, trace, input, declared>>

\* schemaFiles = schemaFiles[:len(fileSet)]
DedupDone ==
    /\ pc = "dedup"
    /\ idx > Len(schemaFiles)
    /\ schemaFiles' = SubSeq(schemaFiles, 1, Cardinality(fileSet))
    /\ pc' = "parse"
    /\ UNCHANGED wire
    /\ UNCHANGED <<exit, outcome, args, format, prefix, basedir, sizeMax,
                   listMax, superClass, interfaces, snippetFile, gen, fileSet,
                   idx, packages, rewritten, tree, logged, trace, input,
                   declared>>

----------------------------------------------------------------------------
(* The library behind main: colfer.ParseFiles, colfer.Format and the       *)
(* generators                                                              *)

\* a package as the parser and linker leave it: no ceilings or directives
NewPackage(name, structs) ==
    [Name |-> name, SizeMax |-> "", ListMax |-> "", SuperClass |-> "",
     Interfaces |-> <<>>, CodeSnippet |-> "", Structs |-> structs]

\* what ParseFiles can return for a file list when it returns no error: the
\* packages have distinct names; no files give no packages
ParseResults(files) ==
    IF files = <<>> THEN { <<>> }
    ELSE { <<>>,
           << NewPackage(<<"p">>, <<"Point">>) >>,
           << NewPackage(<<"p">>, <<"A", "B">>),
              NewPackage(<<"q", "r">>, <<"Point">>) >> }

\* what one Format call can return
FormatResults == {"error", "changed", "unchanged"}

----------------------------------------------------------------------------
(* main, continued: the pipeline *)

FormatAlways(f) == TRUE

\* if *format
FormatRequested(f) == f

\* packages, err := colfer.ParseFiles(schemaFiles)
ParseFiles ==
    /\ pc = "parse"
    /\ \/ /\ schemaFiles # <<>>
          /\ Fatal("parse")
          /\ trace' = Append(trace, Event("ParseFiles", schemaFiles, "error"))
          /\ UNCHANGED <<packages, declared, idx>>
       \/ \E pk \in ParseResults(schemaFiles) :
              /\ packages' = pk
              /\ declared' = pk
              /\ trace' = Append(trace, Event("ParseFiles", schemaFiles, "ok"))
              /\ pc' = IF FormatRequested(format) /\ schemaFiles # <<>>
                       THEN "format" ELSE "empty"
              /\ idx' = 1
              /\ UNCHANGED <<exit, outcome>>
    /\ UNCHANGED wire
    /\ UNCHANGED <<args, format, prefix, basedir, sizeMax, listMax, superClass,
                   interfaces, snippetFile, gen, schemaFiles, fileSet,
                   rewritten, tree, logged, input>>

LogAlways(changed) == TRUE

\* if changed { log.Printf("colf: formatted %q", file) }
LogFormatted(changed) == changed

\* one iteration of the loop calling colfer.Format; Format rewrites the file
\* when it reports it changed
FormatFile ==
    /\ pc = "format"
    /\ LET file == schemaFiles[idx]
       IN  \E r \in FormatResults :
               /\ trace' = Append(trace, Event("Format", file, r))
               /\ IF r = "error"
                  THEN /\ Fatal("format")
                       /\ UNCHANGED <<rewritten, logged, idx>>
                  ELSE /\ rewritten' = IF r = "changed"
                                       THEN rewritten \cup {file} ELSE rewritten
                       /\ logged' = IF LogFormatted(r = "changed")
                                    THEN Append(logged, file) ELSE logged
                       /\ IF idx = Len(schemaFiles)
                          THEN pc' = "empty" /\ idx' = 1
                          ELSE pc' = "format" /\ idx' = idx + 1
                       /\ UNCHANGED <<exit, outcome>>
    /\ UNCHANGED wire
    /\ UNCHANGED <<args, format, prefix, basedir, sizeMax, listMax, superClass,
                   interfaces, snippetFile, gen, schemaFiles, fileSet,
                   packages, tree, input, declared>>

NeverEmpty(pk) == FALSE

\* if len(packages) == 0
NoStructs(pk) == Len(pk) = 0

CheckEmpty ==
    /\ pc = "empty"
    /\ IF NoStructs(packages)
       THEN Fatal("empty") /\ UNCHANGED idx
       ELSE /\ pc' = IF Len(packages) >= 1 THEN "config" ELSE "gen"
            /\ idx' = 1
            /\ UNCHANGED <<exit, outcome>>
    /\ UNCHANGED wire
    /\ UNCHANGED <<args, format, prefix, basedir, sizeMax, listMax, superClass,
                   interfaces, snippetFile, gen, schemaFiles, fileSet,
                   packages, rewritten, tree, logged, trace, input, declared>>

PrefixTwice(p) ==
    [p EXCEPT !.Name = Join(prefix, Join(prefix, p.Name)),
              !.SizeMax = sizeMax,
              !.ListMax = listMax,
              !.SuperClass = superClass,
              !.Interfaces = IF interfaces # <<>> THEN Split(interfaces) ELSE @]

DropStructs(p) ==
    [p EXCEPT !.Name = Join(prefix, p.Name),
              !.SizeMax = sizeMax,
              !.ListMax = listMax,
              !.SuperClass = superClass,
              !.Interfaces = IF interfaces # <<>> THEN Split(interfaces) ELSE @,
              !.Structs = <<>>]

\* the assignments to p.Name, p.SizeMax, p.ListMax, p.SuperClass and
\* p.Interfaces in the loop over the packages
ConfigurePackage(p) ==
    [p EXCEPT !.Name = Join(prefix, p.Name),
              !.SizeMax = sizeMax,
              !.ListMax = listMax,
              !.SuperClass = superClass,
              !.Interfaces = IF interfaces # <<>> THEN Split(interfaces) ELSE @]

\* one iteration of the loop over the packages, which are shared by
\* reference with the list ParseFiles returned
Configure ==
    /\ pc = "config"
    /\ LET p == ConfigurePackage(packages[idx])
           text == ReadFile(snippetFile)
       IN  IF snippetFile # "" /\ text = "error"
           THEN /\ packages' = [packages EXCEPT ![idx] = p]
                /\ trace' = Append(trace, Event("ReadFile", snippetFile, "error"))
                /\ Fatal("snippet")
                /\ UNCHANGED idx
           ELSE /\ packages' = [packages EXCEPT ![idx] =
                                   IF snippetFile # ""
                                   THEN [p EXCEPT !.CodeSnippet = text] ELSE p]
                /\ trace' = IF snippetFile # ""
                            THEN Append(trace, Event("ReadFile", snippetFile, "ok"))
                            ELSE trace
                /\ IF idx = Len(packages)
                   THEN pc' = "gen" /\ idx' = 1
                   ELSE pc' = "config" /\ idx' = idx + 1
                /\ UNCHANGED <<exit, outcome>>
    /\ UNCHANGED wire
    /\ UNCHANGED <<args, format, prefix, basedir, sizeMax, listMax, superClass,
                   interfaces, snippetFile, gen, schemaFiles, fileSet,
                   rewritten, tree, logged, input, declared>>

\* if err := gen(*basedir, packages); a generator that fails leaves what it
\* wrote so far; main returns after a generator that succeeds
Generate ==
    /\ pc = "gen"
    /\ \/ /\ tree' = "full"
          /\ trace' = Append(trace, Event(gen, basedir, "ok"))
          /\ pc' = "exit"
          /\ exit' = SuccessStatus
          /\ outcome' = "success"
       \/ /\ \E t \in {"none", "partial"} : tree' = t
          /\ trace' = Append(trace, Event(gen, basedir, "error"))
          /\ Fatal("generate")
    /\ UNCHANGED wire
    /\ UNCHANGED <<args, format, prefix, basedir, sizeMax, listMax, superClass,
                   interfaces, snippetFile, gen, schemaFiles, fileSet, idx,
                   packages, rewritten, logged, input, declared>>

Next ==
    \/ FlagParseBad
    \/ FlagParseHelp
    \/ FlagParse
    \/ CheckNArg
    \/ SelectLanguage
    \/ CollectDefault
    \/ CollectOperand
    \/ Dedup
    \/ DedupDone
    \/ ParseFiles
    \/ FormatFile
    \/ CheckEmpty
    \/ Configure
    \/ Generate

Spec == Init /\ [][Next]_vars

----------------------------------------------------------------------------
(* The wire format the generators emit code for (section 4.4 of the        *)
(* specification): a struct is the sequence of its non-default fields,     *)
(* each a header byte and a value; the header holds the field index and,   *)
(* on the last present field, the terminal flag; a struct with no present  *)
(* field is the terminal marker alone.                                     *)

\* longest text value marshalled
MaxTextLen == 2

\* the terminal flag of a header, and the continuation flag of a varint byte
HighBit == 128
\* the header of a struct with no present field
TerminalMarker == 255
\* the default size ceiling, "16 * 1024 * 1024"
WireSizeMax == 16 * 1024 * 1024
\* the range of a 32-bit signed integer
Int32Max == 2147483647
Int32Min == -Int32Max - 1

\* struct Inner { a int32; b int32 }, struct Msg { x int32; y int32; t text; n Inner }
InnerSchema == <<"int32", "int32">>
MsgSchema == <<"int32", "int32", "text", "ref">>

\* a field's default: 0, the empty text, the absent reference
Default(kind) == IF kind = "int32" THEN 0 ELSE <<>>
Defaults(schema) == [i \in 1..Len(schema) |-> Default(schema[i])]

NothingElided(kind, v) == FALSE

\* zero-value elision: the test for "holds its type's default value"
IsDefault(kind, v) == v = Default(kind)

\* sign folding: small magnitudes of either sign become small naturals
Fold(n) == IF n >= 0 THEN 2 * n ELSE -2 * n - 1
Unfold(u) == IF u % 2 = 0 THEN u \div 2 ELSE -((u + 1) \div 2)

\* variable-length natural: seven bits a byte, low bits first
RECURSIVE Varint(_)
Varint(u) ==
    IF u < HighBit THEN <<u>>
    ELSE <<HighBit + (u % HighBit)>> \o Varint(u \div HighBit)

EncodeInt(n) == Varint(Fold(n))
EncodeText(t) == Varint(Len(t)) \o t

RECURSIVE EncodeStruct(_, _)
\* the value of one present field; a struct-typed field is the nested
\* struct's own terminated sequence, with no length prefix
EncodeField(kind, v) ==
    IF kind = "int32" THEN EncodeInt(v)
    ELSE IF kind = "text" THEN EncodeText(v)
    ELSE EncodeStruct(InnerSchema, v[1])

\* the fields from index i on, given the index of the last present field
RECURSIVE EncodeFrom(_, _, _, _)
EncodeFrom(schema, v, i, last) ==
    IF i > Len(schema) THEN <<>>
    ELSE IF IsDefault(schema[i], v[i]) THEN EncodeFrom(schema, v, i + 1, last)
    ELSE << (i - 1) + (IF i = last THEN HighBit ELSE 0) >>
            \o EncodeField(schema[i], v[i])
            \o EncodeFrom(schema, v, i + 1, last)

\* marshal
EncodeStruct(schema, v) ==
    LET present == {i \in 1..Len(schema) : ~IsDefault(schema[i], v[i])}
    IN  IF present = {} THEN <<TerminalMarker>>
        ELSE EncodeFrom(schema, v, 1,
                        CHOOSE i \in present : \A j \in present : j <= i)

Failed == [ok |-> FALSE, val |-> <<>>, pos |-> 0]

\* read a variable-length natural at pos; truncated input fails
RECURSIVE DecodeVarint(_, _, _, _)
DecodeVarint(b, pos, acc, scale) ==
    IF pos > Len(b) THEN Failed
    ELSE IF b[pos] < HighBit
         THEN [ok |-> TRUE, val |-> acc + b[pos] * scale, pos |-> pos + 1]
    ELSE DecodeVarint(b, pos + 1, acc + (b[pos] - HighBit) * scale,
                      scale * HighBit)

\* an integer wider than the declared 32 bits is rejected
DecodeInt(b, pos) ==
    LET r == DecodeVarint(b, pos, 0, 1)
    IN  IF ~r.ok THEN Failed
        ELSE IF Unfold(r.val) < Int32Min \/ Unfold(r.val) > Int32Max THEN Failed
        ELSE [r EXCEPT !.val = Unfold(r.val)]

\* a declared length over the ceiling or past the input fails before the
\* bytes are read
DecodeText(b, pos) ==
    LET r == DecodeVarint(b, pos, 0, 1)
    IN  IF ~r.ok THEN Failed
        ELSE IF r.val > WireSizeMax \/ r.pos + r.val - 1 > Len(b) THEN Failed
        ELSE [ok |-> TRUE, val |-> SubSeq(b, r.pos, r.pos + r.val - 1),
              pos |-> r.pos + r.val]

RECURSIVE DecodeFields(_, _, _, _, _)
DecodeField(kind, b, pos) ==
    IF kind = "int32" THEN DecodeInt(b, pos)
    ELSE IF kind = "text" THEN DecodeText(b, pos)
    ELSE LET r == DecodeFields(InnerSchema, b, pos, Defaults(InnerSchema), TRUE)
         IN  IF r.ok THEN [r EXCEPT !.val = <<r.val>>] ELSE Failed

\* read headers until the one with the terminal flag; val starts as the
\* defaults, so that an omitted field comes out defaulted
DecodeFields(schema, b, pos, val, first) ==
    IF pos > Len(b) THEN Failed
    ELSE IF b[pos] = TerminalMarker
         THEN (IF first THEN [ok |-> TRUE, val |-> val, pos |-> pos + 1] ELSE Failed)
    ELSE LET index == b[pos] % HighBit
             r == DecodeField(schema[index + 1], b, pos + 1)
         IN  IF index >= Len(schema) THEN Failed
             ELSE IF ~r.ok THEN Failed
             ELSE IF b[pos] >= HighBit
                  THEN [ok |-> TRUE, val |-> [val EXCEPT ![index + 1] = r.val],
                        pos |-> r.pos]
             ELSE DecodeFields(schema, b, r.pos,
                               [val EXCEPT ![index + 1] = r.val], FALSE)

\* unmarshal
DecodeStruct(schema, b) == DecodeFields(schema, b, 1, Defaults(schema), TRUE)

\* the values marshalled: integers of one and of two wire bytes and of
\* either sign, texts up to MaxTextLen, the reference absent or present
IntSamples == {-65, -1, 0, 5, 64}
TextSamples == SeqsUpTo({65, 66}, MaxTextLen)
InnerValues == {<<a, b>> : a \in IntSamples, b \in {0, 5}}
RefSamples == {<<>>} \cup {<<v>> : v \in InnerValues}
MsgValues == {<<x, y, t, n>> : x \in IntSamples, y \in IntSamples,
                               t \in TextSamples, n \in RefSamples}

WireInit ==
    /\ CliInit
    /\ wpc = "value"
    /\ value \in MsgValues
    /\ bytes = <<>>
    /\ decoded = Failed

Marshal ==
    /\ wpc = "value"
    /\ bytes' = EncodeStruct(MsgSchema, value)
    /\ wpc' = "encoded"
    /\ UNCHANGED <<value, decoded>>
    /\ UNCHANGED cli

Unmarshal ==
    /\ wpc = "encoded"
    /\ decoded' = DecodeStruct(MsgSchema, bytes)
    /\ wpc' = "decoded"
    /\ UNCHANGED <<value, bytes>>
    /\ UNCHANGED cli

WireNext ==
    \/ Marshal
    \/ Unmarshal

SpecWire == WireInit /\ [][WireNext]_vars

----------------------------------------------------------------------------
(* Vocabulary of the properties *)

Generators == {"GenerateC", "GenerateGo", "GenerateJava", "GenerateECMA"}

Calls(ops) == {i \in DOMAIN trace : trace[i].op \in ops}
GenCalls == Calls(Generators)
ParseCalls == Calls({"ParseFiles"})
FormatCalls == Calls({"Format"})
FileCalls == Calls({"Stat", "Glob"})

\* ParseFiles has returned without error
Parsed == \E i \in ParseCalls : trace[i].res = "ok"

\* the run is past language selection with its flags parsed
Selected == pc \notin {"start", "narg", "select"} /\ outcome \notin {"flag", "help", "usage"}

\* the k-th call among the calls at the indices in set c, in trace order
RECURSIVE InOrder(_)
InOrder(c) ==
    IF c = {} THEN <<>>
    ELSE LET m == CHOOSE i \in c : \A j \in c : j <= i
         IN  Append(InOrder(c \ {m}), trace[m])

----------------------------------------------------------------------------
(* C1 *)

\* C1: when the selected language is C, Go or ECMAScript and one of -x, -i,
\* -c is non-empty, the run ends in the directive error with status 1 and
\* nothing was stat'ed, globbed, parsed, formatted or generated; with Java
\* the same directives never give that error and the run goes on to collect
\* its schema files.
C1_DirectivesRejected ==
    (Selected /\ DirectiveGiven) =>
        /\ gen \in {"GenerateC", "GenerateGo", "GenerateECMA"} =>
              /\ pc = "exit"
              /\ exit = 1
              /\ outcome = "directive"
              /\ trace = <<>>
              /\ schemaFiles = <<>>
              /\ rewritten = {}
              /\ tree = "none"
        /\ gen = "GenerateJava" =>
              /\ outcome # "directive"
              /\ pc = "exit" => FileCalls # {}

C1_Witness ==
    /\ pc = "exit"
    /\ gen = "GenerateECMA"
    /\ interfaces # <<>>
    /\ superClass = ""
    /\ snippetFile = ""
    /\ outcome = "directive"

----------------------------------------------------------------------------
(* C2 *)

\* C2: the generator is called at most once, as the last call of the run,
\* and only after ParseFiles returned without error, with no failed call
\* before it, with every schema file formatted without error when -f is
\* set, and with a non-empty package set; a run that ended in a language,
\* directive, stat, glob, parse, format, empty-set or snippet error made no
\* generator call.
C2_NoPartialGeneration ==
    /\ Cardinality(GenCalls) <= 1
    /\ \A i \in GenCalls :
          /\ i = Len(trace)
          /\ \E j \in ParseCalls : j < i /\ trace[j].res = "ok"
          /\ \A j \in 1..(i - 1) : trace[j].res # "error"
          /\ format => \A k \in 1..Len(schemaFiles) :
                          \E j \in FormatCalls :
                              /\ j < i
                              /\ trace[j].arg = schemaFiles[k]
                              /\ trace[j].res # "error"
          /\ Len(packages) > 0
    /\ outcome \in {"language", "directive", "stat", "glob", "parse", "format",
                    "empty", "snippet", "flag", "help", "usage"}
          => GenCalls = {}

C2_Witness ==
    /\ GenCalls # {}
    /\ format
    /\ Len(schemaFiles) = 2
    /\ Len(packages) = 2

----------------------------------------------------------------------------
(* C3 *)

\* the distinct cleaned paths of a list, in the order of first occurrence
RECURSIVE FirstOccurrences(_)
FirstOccurrences(s) ==
    IF s = <<>> THEN <<>>
    ELSE LET r == FirstOccurrences(SubSeq(s, 1, Len(s) - 1))
             c == Clean(s[Len(s)])
         IN  IF \E k \in 1..Len(r) : r[k] = c THEN r ELSE Append(r, c)

\* C3: the list handed to ParseFiles holds each distinct cleaned path of the
\* collected list once, in the order of first occurrence, and nothing else;
\* while compacting, the write index is never greater than the read index
\* and the elements not yet read are still the collected ones.
C3_OrderedDeduplicated ==
    /\ \A i \in ParseCalls :
          /\ trace[i].arg = FirstOccurrences(input)
          /\ schemaFiles = FirstOccurrences(input)
    /\ pc = "dedup" =>
          /\ Len(schemaFiles) = Len(input)
          /\ WriteIndex(fileSet) <= idx
          /\ \A k \in idx..Len(schemaFiles) : schemaFiles[k] = input[k]
          /\ SubSeq(schemaFiles, 1, Cardinality(fileSet))
                = FirstOccurrences(SubSeq(input, 1, idx - 1))

C3_Witness ==
    /\ ParseCalls # {}
    /\ Len(input) = 3
    /\ input[1] # input[2]
    /\ Clean(input[1]) = Clean(input[2])
    /\ Len(schemaFiles) = 2

----------------------------------------------------------------------------
(* C4 *)

\* C4, as stated: a run that ends in an error has rewritten no schema file
\* and has written nothing to the destination tree.
C4_ErrorLeavesNothing ==
    (pc = "exit" /\ outcome # "success") => (rewritten = {} /\ tree = "none")

\* C4, amended: a run ends either in success, with the complete destination
\* tree and, only under -f, rewritten schema files with one log line each,
\* or without the generator having completed.  A run that ends before
\* ParseFiles returned without error has produced nothing; a later error
\* ending can leave schema files already rewritten (only under -f), and
\* only a failed generator call can leave a partial tree.
C4_Outcomes ==
    /\ rewritten # {} => (format /\ Parsed)
    /\ tree # "none" => (GenCalls # {} /\ Parsed)
    /\ tree = "full" <=> outcome = "success"
    /\ tree = "partial" => outcome = "generate"
    /\ pc = "exit" =>
          /\ outcome # "running"
          /\ outcome = "success" =>
                /\ exit = 0
                /\ trace[Len(trace)].op = gen
                /\ trace[Len(trace)].res = "ok"
                /\ rewritten = {logged[k] : k \in DOMAIN logged}
          /\ ~Parsed => (rewritten = {} /\ tree = "none")

C4_Witness ==
    /\ pc = "exit"
    /\ outcome = "snippet"
    /\ Cardinality(rewritten) = 2
    /\ tree = "none"

----------------------------------------------------------------------------
(* C5 *)

\* C5, as stated: the exit status is 2 exactly when no operand is left for
\* the language, and 0 only when the generator returned without error.
C5_ExitStatusAsStated ==
    pc = "exit" =>
        /\ exit = 2 <=> Len(args) = 0
        /\ exit = 0 => \E i \in GenCalls : trace[i].res = "ok"

\* C5, amended: the status is 2 when flag parsing stops at an undefined
\* flag, whatever operands follow, and when the flags parse and no operand
\* is given; a help request exits 2 or 0 depending on the Go release; with
\* the flags parsed and a language given the status is 1 for every failure
\* of language selection, directive validation, stat, glob, parsing,
\* formatting, empty package set, snippet reading and generation, and it is
\* 0 exactly when the generator returned without error.
C5_ExitStatus ==
    pc = "exit" =>
        /\ exit \in {0, 1, 2}
        /\ outcome = "flag" => exit = 2
        /\ outcome = "help" => exit \in {0, 2}
        /\ outcome \notin {"flag", "help"} =>
              /\ exit = 2 <=> Len(args) = 0
              /\ exit = 0 <=> \E i \in GenCalls : trace[i].res = "ok"
              /\ outcome \in {"language", "directive", "stat", "glob", "parse",
                              "format", "empty", "snippet", "generate"}
                    <=> exit = 1
              /\ (trace # <<>> /\ trace[Len(trace)].res = "error") => exit = 1
              /\ (Len(args) > 0 /\ GeneratorFor(args[1]) = "nil") => exit = 1
              /\ (Parsed /\ Len(packages) = 0) => exit = 1

C5_Witness ==
    /\ pc = "exit"
    /\ exit = 1
    /\ outcome = "glob"
    /\ Len(trace) = 3

----------------------------------------------------------------------------
(* C6 *)

\* C6, as stated: once ParseFiles has returned the package set, no step of
\* the run writes to a package.
C6_PackagesNeverWritten ==
    [][Parsed => packages' = packages]_vars

\* C6, amended: once ParseFiles has returned the package set, the only
\* writes to it are those of main's configuration loop, which sets the
\* name, the ceilings and the directives of one package per iteration; the
\* number of packages and every struct list stay as the linker left them,
\* and the format loop, the empty check and the generator call write
\* nothing.
C6_OnlyConfigurationWrites ==
    [][Parsed =>
          /\ Len(packages') = Len(packages)
          /\ \A k \in DOMAIN packages :
                /\ packages'[k].Structs = packages[k].Structs
                /\ packages'[k].Structs = declared[k].Structs
                /\ packages'[k] # packages[k] => (pc = "config" /\ k = idx)
      ]_vars

C6_Witness ==
    /\ pc = "gen"
    /\ Len(packages) = 2
    /\ packages # declared
    /\ packages[2].Structs = <<"Point">>

----------------------------------------------------------------------------
(* C7 *)

\* C7: when the generator is invoked every package carries the configured
\* size ceiling, list ceiling and super class, the snippet file's text when
\* one is configured, a name equal to the prefix joined once with its
\* declared name, and an interface list that is unset without -i and the
\* comma-split of the option otherwise.
C7_UniformConfiguration ==
    (pc = "gen" \/ GenCalls # {}) =>
        /\ Len(packages) = Len(declared)
        /\ \A k \in DOMAIN packages :
              /\ packages[k].SizeMax = sizeMax
              /\ packages[k].ListMax = listMax
              /\ packages[k].SuperClass = superClass
              /\ packages[k].CodeSnippet =
                    (IF snippetFile = "" THEN "" ELSE ReadFile(snippetFile))
              /\ packages[k].Name = Join(prefix, declared[k].Name)
              /\ declared[k].Name = <<"q", "r">> =>
                    packages[k].Name \in {<<"q", "r">>, <<"com", "example", "q", "r">>}
              /\ interfaces = <<>> => packages[k].Interfaces = <<>>
              /\ interfaces # <<>> => packages[k].Interfaces = Split(interfaces)
              /\ interfaces = <<"I", ",", "J">> =>
                    packages[k].Interfaces = << <<"I">>, <<"J">> >>
        /\ \A k, m \in DOMAIN packages :
              /\ packages[k].SizeMax = packages[m].SizeMax
              /\ packages[k].ListMax = packages[m].ListMax
              /\ packages[k].SuperClass = packages[m].SuperClass
              /\ packages[k].Interfaces = packages[m].Interfaces
              /\ packages[k].CodeSnippet = packages[m].CodeSnippet

C7_Witness ==
    /\ GenCalls # {}
    /\ Len(packages) = 2
    /\ prefix # <<>>
    /\ packages[2].Name = <<"com", "example", "q", "r">>
    /\ packages[1].Interfaces = << <<"I">>, <<"J">> >>
    /\ packages[1].CodeSnippet = "CODE"
    /\ sizeMax = "2048"

----------------------------------------------------------------------------
(* C9 *)

\* C9: ParseFiles is called at most once, on the de-duplicated list, before
\* every Format call; without -f Format is never called; with -f the Format
\* calls go through the list in order, one per file, and stop at the first
\* error; the "formatted" lines are exactly the files Format reported
\* changed, in order; the generator is called only after Format has
\* returned for every file.
C9_PipelineOrder ==
    LET fc == InOrder(FormatCalls)
    IN  /\ Cardinality(ParseCalls) <= 1
        /\ \A i \in ParseCalls :
              /\ trace[i].arg = schemaFiles
              /\ \A j \in FormatCalls \cup GenCalls : i < j
        /\ \A i \in FileCalls : \A j \in ParseCalls : i < j
        /\ ~format => FormatCalls = {}
        /\ FormatCalls # {} => Parsed
        /\ Len(fc) <= Len(schemaFiles)
        /\ \A k \in DOMAIN fc :
              /\ fc[k].arg = schemaFiles[k]
              /\ fc[k].res = "error" => k = Len(fc)
        /\ logged = [k \in DOMAIN SelectSeq(fc, LAMBDA e : e.res = "changed")
                        |-> SelectSeq(fc, LAMBDA e : e.res = "changed")[k].arg]
        /\ \A g \in GenCalls :
              /\ \A j \in FormatCalls : j < g
              /\ format => Len(fc) = Len(schemaFiles)
        /\ (format /\ pc \in {"empty", "config", "gen"}) => Len(fc) = Len(schemaFiles)

C9_Witness ==
    /\ GenCalls # {}
    /\ format
    /\ Len(schemaFiles) = 3
    /\ Len(logged) = 1
    /\ logged[1] = schemaFiles[2]

----------------------------------------------------------------------------
(* C10 *)

\* equality of two texts up to letter case
EqualFold(s, t) ==
    /\ Len(s) = Len(t)
    /\ \A i \in 1..Len(s) : LowerChar(s[i]) = LowerChar(t[i])

\* the generator the help text and the switch give each language name
NamedGenerator(lang) ==
    IF EqualFold(lang, <<"c">>) THEN "GenerateC"
    ELSE IF EqualFold(lang, <<"g", "o">>) THEN "GenerateGo"
    ELSE IF EqualFold(lang, <<"j", "a", "v", "a">>) THEN "GenerateJava"
    ELSE IF \/ EqualFold(lang, <<"j", "s">>)
            \/ EqualFold(lang, <<"j", "a", "v", "a", "s", "c", "r", "i", "p", "t">>)
            \/ EqualFold(lang, <<"e", "c", "m", "a", "s", "c", "r", "i", "p", "t">>)
         THEN "GenerateECMA"
    ELSE "nil"

\* C10: a selector equal up to letter case to c, go, java, javascript, js or
\* ecmascript selects the generator of that language; any other selector
\* ends the run in the unsupported-language error with status 1 before any
\* path is stat'ed or globbed and before any parse, format or generator
\* call; a generator that is called is the selected one, never an unset one.
C10_LanguageSelection ==
    /\ Selected =>
          /\ NamedGenerator(args[1]) # "nil" =>
                /\ gen = NamedGenerator(args[1])
                /\ outcome # "language"
          /\ NamedGenerator(args[1]) = "nil" =>
                /\ pc = "exit"
                /\ exit = 1
                /\ outcome = "language"
                /\ gen = "nil"
                /\ trace = <<>>
    /\ \A i \in GenCalls :
          /\ trace[i].op = gen
          /\ trace[i].op = NamedGenerator(args[1])
    /\ \A i \in DOMAIN trace : trace[i].op # "nil"
    /\ pc \in {"collect", "dedup", "parse", "format", "empty", "config", "gen"}
          => gen \in Generators

C10_Witness ==
    /\ \E i \in GenCalls : trace[i].op = "GenerateECMA"
    /\ args[1] = <<"J", "a", "v", "a", "S", "c", "r", "i", "p", "t">>

----------------------------------------------------------------------------
(* C8 *)

\* the wire size of a value: a header and the value for every field that
\* does not hold its default, the terminal marker alone when none does
RECURSIVE PresentSize(_, _, _)
PresentSize(schema, v, i) ==
    IF i > Len(schema) THEN 0
    ELSE (IF v[i] = Default(schema[i]) THEN 0
          ELSE 1 + Len(EncodeField(schema[i], v[i])))
         + PresentSize(schema, v, i + 1)

\* C8: unmarshalling the marshalled bytes of a value succeeds, consumes all
\* the bytes and gives the value back, the all-default value and values
\* with empty text and absent reference included; fields holding their
\* default take no bytes, and the value with x = 0 and y = 5 marshals to the
\* header and value of y alone.
C8_RoundTrip ==
    /\ wpc = "decoded" =>
          /\ decoded.ok
          /\ decoded.val = value
          /\ decoded.pos = Len(bytes) + 1
    /\ wpc \in {"encoded", "decoded"} =>
          /\ value = Defaults(MsgSchema) <=> bytes = <<TerminalMarker>>
          /\ value # Defaults(MsgSchema) =>
                Len(bytes) = PresentSize(MsgSchema, value, 1)
          /\ value = <<0, 5, <<>>, <<>>>> => bytes = <<129, 10>>

C8_Witness ==
    /\ wpc = "decoded"
    /\ value = <<0, 5, <<>>, <<>>>>
    /\ decoded.val = <<0, 5, <<>>, <<>>>>
    /\ bytes = <<129, 10>>

====
